---- MODULE Spec2Model ----
(***************************************************************************)
(* ResQLink mesh: nodes (mesh.py) relaying messages (messages.py) with the *)
(* heuristic decision engine (lml_model.py), driven as in demo.py.         *)
(*                                                                         *)
(* Numbers.  The program computes in floating point; the model computes    *)
(* in fixed point.  Probabilities, confidences, priorities, coordinates    *)
(* and distances are in thousandths (Milli), signal strength in            *)
(* thousandths of a dB, route scores in millionths (a weight in            *)
(* thousandths times a term in thousandths).  Every quotient truncates.    *)
(* Classification scores are in tenths, so that the +2.5 bonus is 25.      *)
(*                                                                         *)
(* Text.  classify and prioritize read a text only through the tests       *)
(* "w in text" for the keywords w and through len(text.strip()) == 0, so a *)
(* text is the set kw of keywords that occur in it and the flag blank.     *)
(*                                                                         *)
(* Scheduling.  asyncio runs one coroutine at a time and switches only at  *)
(* an await that suspends; Node.run suspends only in asyncio.sleep (line   *)
(* 53), process_message never.  A tick (lines 54-68) is therefore atomic   *)
(* with respect to every other node and to the driver.  The model splits   *)
(* a tick into TickBegin, one ProcessMessage per dequeued message, and     *)
(* TickEnd, and lets nothing else move while a tick is open (turn).        *)
(***************************************************************************)
EXTENDS Integers, Sequences, FiniteSets, TLC

Milli == 10 * 10 * 10

None == "None"

Range(s) == {s[i] : i \in 1..Len(s)}

IsPrefix(s, t) == Len(s) <= Len(t) /\ SubSeq(t, 1, Len(s)) = s

Min(a, b) == IF a <= b THEN a ELSE b

Max(a, b) == IF a >= b THEN a ELSE b

(***************************************************************************)
(* messages.py, lml_model.py: types and keyword sets                       *)
(***************************************************************************)
DISTRESS == "DISTRESS"

GPS == "GPS"

STATUS == "STATUS"

SUPPLY == "SUPPLY"

UNKNOWN == "UNKNOWN"

MsgType == {DISTRESS, GPS, STATUS, SUPPLY, UNKNOWN}

\* In the order of the set literals of the source.  "wildfire" contains
\* "fire": a text in which "wildfire" occurs is one in which "fire" occurs.
DistressOrder ==
  << "help", "mayday", "sos", "emergency", "trapped", "injury", "bleeding",
     "collapsed", "fire", "danger", "earthquake", "flood", "hurricane",
     "wildfire", "bomb", "attack" >>

GpsOrder == << "lat", "lon", "gps", "coordinates", "location", "pos", "grid" >>

SupplyOrder ==
  << "water", "food", "medicine", "insulin", "tent", "blanket", "generator",
     "fuel" >>

StatusOrder == << "ok", "alive", "safe", "status", "update", "checkin", "fine" >>

DISTRESS_KEYWORDS == Range(DistressOrder)

GPS_KEYWORDS == Range(GpsOrder)

SUPPLY_KEYWORDS == Range(SupplyOrder)

STATUS_KEYWORDS == Range(StatusOrder)

softclip(x, lo, hi) == Max(lo, Min(hi, x))

(***************************************************************************)
(* LMLModel.classify                                                       *)
(***************************************************************************)
\* The number of keywords of K that occur in the text: the loops
\* "for w in K: if w in text: score[..] += 1", in tenths.
KeywordScore(K, text) == 10 * Cardinality(K \cap text.kw)

GPS_BONUS == 25

\* classify without the bonus for a coordinate.
ClassifyScore_NoBonus(m) ==
  [t \in {DISTRESS, GPS, SUPPLY, STATUS} |->
     CASE t = DISTRESS -> KeywordScore(DISTRESS_KEYWORDS, m.text)
       [] t = GPS      -> KeywordScore(GPS_KEYWORDS, m.text)
       [] t = SUPPLY   -> KeywordScore(SUPPLY_KEYWORDS, m.text)
       [] t = STATUS   -> KeywordScore(STATUS_KEYWORDS, m.text)]

\* score, after the four loops and the coordinate bonus (tenths).
ClassifyScore(m) ==
  [t \in {DISTRESS, GPS, SUPPLY, STATUS} |->
     CASE t = DISTRESS -> KeywordScore(DISTRESS_KEYWORDS, m.text)
       [] t = GPS      -> KeywordScore(GPS_KEYWORDS, m.text)
                            + (IF m.gps THEN GPS_BONUS ELSE 0)
       [] t = SUPPLY   -> KeywordScore(SUPPLY_KEYWORDS, m.text)
       [] t = STATUS   -> KeywordScore(STATUS_KEYWORDS, m.text)]

\* The dict score is iterated in insertion order.
ScoreOrder == << DISTRESS, GPS, SUPPLY, STATUS >>

\* max(score, key=score.get): the first key, in iteration order, whose value
\* no other key exceeds.
ArgMaxFirst(score) ==
  LET best == CHOOSE v \in {score[ScoreOrder[i]] : i \in 1..Len(ScoreOrder)} :
                \A i \in 1..Len(ScoreOrder) : score[ScoreOrder[i]] <= v
      first == CHOOSE i \in 1..Len(ScoreOrder) :
                 /\ score[ScoreOrder[i]] = best
                 /\ \A j \in 1..(i - 1) : score[ScoreOrder[j]] # best
  IN  ScoreOrder[first]

CONF_LO == 100

CONF_HI == 990

CONF_UNKNOWN == 200

CONF_DISTRESS_BONUS == 200

\* The distress bonus added without the second softclip.
ClassifyConf_NoReclip(mtype, s) ==
  LET conf == softclip((s * 100) \div 3, CONF_LO, CONF_HI)
  IN  IF mtype = DISTRESS /\ s >= 20 THEN conf + CONF_DISTRESS_BONUS ELSE conf

\* conf = softclip(score[mtype]/3.0, 0.1, 0.99), raised by 0.2 and clipped to
\* [0, 1] for DISTRESS with a score of 2 or more.
ClassifyConf(mtype, s) ==
  LET conf == softclip((s * 100) \div 3, CONF_LO, CONF_HI)
  IN  IF mtype = DISTRESS /\ s >= 20
        THEN softclip(conf + CONF_DISTRESS_BONUS, 0, Milli)
        ELSE conf

classify(m) ==
  LET score == ClassifyScore(m)
      mtype == ArgMaxFirst(score)
  IN  IF m.text.blank /\ ~m.gps
        THEN [mtype |-> UNKNOWN, conf |-> CONF_UNKNOWN]
        ELSE [mtype |-> mtype, conf |-> ClassifyConf(mtype, score[mtype])]

(***************************************************************************)
(* LMLModel.prioritize                                                     *)
(***************************************************************************)
PriorityBase(t) ==
  CASE t = DISTRESS -> 950
    [] t = GPS      -> 750
    [] t = SUPPLY   -> 600
    [] t = STATUS   -> 400
    [] t = UNKNOWN  -> 300

RECENCY_SPAN == 600

CONGESTION_SPAN == 50

CONGESTION_LO == 200

GPS_DISTRESS_PRIO == 850

\* age: time.time() - msg.timestamp, in seconds; qlen: net_ctx["queue_len"].
prioritize(m, qlen, age) ==
  LET base       == PriorityBase(m.mtype)
      recency    == softclip(Milli - (age * Milli) \div RECENCY_SPAN, 0, Milli)
      congestion == softclip(Milli - (qlen * Milli) \div CONGESTION_SPAN,
                             CONGESTION_LO, Milli)
      prio       == (base * 700 + 250 * recency + 50 * congestion) \div Milli
      raised     == IF m.mtype = GPS /\ (m.tag_distress \/ "help" \in m.text.kw)
                      THEN Max(prio, GPS_DISTRESS_PRIO)
                      ELSE prio
  IN  softclip(raised, 0, Milli)

(***************************************************************************)
(* LMLModel.route                                                          *)
(***************************************************************************)
LOSS_CLIP == 900

\* The score of one candidate (millionths).  stats: rssi (thousandths of a
\* dB), loss (thousandths), queue, dist (<< >> for None, or << d >> with d in
\* thousandths).
RouteScore(stats, priority) ==
  LET link_quality == (stats.rssi + 100 * Milli) \div 60
      reliability  == Milli - softclip(stats.loss, 0, LOSS_CLIP)
      queue_pen    == Milli \div (1 + stats.queue)
      dist_term    == IF stats.dist = << >> THEN 0
                      ELSE (Milli * Milli) \div (Milli + stats.dist[1])
      p            == softclip(priority, 0, Milli)
      weight_dist  == 400 + (300 * p) \div Milli
      weight_rel   == 300 + (200 * p) \div Milli
      weight_ql    == 200
      weight_queue == 100
  IN  weight_dist * dist_term + weight_rel * reliability
        + weight_ql * link_quality + weight_queue * queue_pen

\* best_score starts at -1e9, which is -10^15 millionths and beyond the
\* integers of the checker: the starting value is kept in whole units and
\* compared with the floor of the score.
BEST_SCORE_INIT == -1000000000

\* best_score starting at 0.
ScoreExceedsInit_Zero(score) == score > 0

ScoreExceedsInit(score) == score \div (Milli * Milli) >= BEST_SCORE_INIT

\* The loop over next_hops.items(): hops is the mapping in its iteration
\* (insertion) order, a sequence of [nid, stats]; best is [node, score, init].
RECURSIVE RouteLoop(_, _, _, _)
RouteLoop(hops, i, priority, best) ==
  IF i > Len(hops) THEN best.node
  ELSE LET score  == RouteScore(hops[i].stats, priority)
           better == IF best.init THEN ScoreExceedsInit(score)
                     ELSE score > best.score
       IN  RouteLoop(hops, i + 1, priority,
                     IF better
                       THEN [node |-> hops[i].nid, score |-> score, init |-> FALSE]
                       ELSE best)

route(next_hops, priority) ==
  IF Len(next_hops) = 0 THEN None
  ELSE RouteLoop(next_hops, 1, priority,
                 [node |-> None, score |-> 0, init |-> TRUE])

(***************************************************************************)
(* demo.py: the nodes, their positions, the links, the messages            *)
(***************************************************************************)
Nodes == {"A", "B", "C", "D"}

\* Node(id, x, y): the coordinates, in thousandths.
NodeX == [n \in Nodes |->
            CASE n = "A" -> 0 [] n = "B" -> 800 [] n = "C" -> 1600 [] n = "D" -> 2400]

NodeY == [n \in Nodes |->
            CASE n = "A" -> 0 [] n = "B" -> 0 [] n = "C" -> 200 [] n = "D" -> 0]

\* The integer part of the square root of v, by Newton's iteration from
\* above (r is never below it).
RECURSIVE SqrtIter(_, _)
SqrtIter(v, r) == IF r * r <= v THEN r ELSE SqrtIter(v, (r + v \div r) \div 2)

ISqrt(v) == IF v = 0 THEN 0 ELSE SqrtIter(v, Min(v, 4 * Milli))

\* Node.distance_to, in thousandths, truncated.
distance_to(a, b) ==
  ISqrt((NodeX[a] - NodeX[b]) * (NodeX[a] - NodeX[b])
        + (NodeY[a] - NodeY[b]) * (NodeY[a] - NodeY[b]))

\* The values random.random() is given: thousandths of [0, 1).
RandDraws == {0, 999}

\* The values time.time() is given, in seconds since the driver began: the
\* driver of demo.py lets the mesh run for 2 seconds.
Times == {0, 2}

\* Link.stats_for(src, dst), with the two draws of random.random().
stats_for(link, src, dst, qlen, u_rssi, u_loss) ==
  [rssi  |-> IF distance_to(src, dst) < Milli
               THEN -40 * Milli - 5 * u_rssi
               ELSE -70 * Milli - 10 * u_rssi,
   loss  |-> Min(900, link.base_loss + (50 * u_loss) \div Milli),
   queue |-> qlen,
   dist  |-> << distance_to(src, dst) >>]

\* A dict keyed by neighbour id is the sequence of its items in insertion
\* order: assigning to a key that is present keeps the key's place.
Keys(d) == {d[i].nid : i \in 1..Len(d)}

Lookup(d, k) == (CHOOSE i \in 1..Len(d) : d[i].nid = k)

DictGet(d, k) == d[Lookup(d, k)].link

DictPut(d, k, link) ==
  IF k \in Keys(d)
    THEN [d EXCEPT ![Lookup(d, k)] = [nid |-> k, link |-> link]]
    ELSE Append(d, [nid |-> k, link |-> link])

\* Link(a, b, base_loss); serial tells one Link object from another.
Link(a, b, base_loss, serial) ==
  [a |-> a, b |-> b, base_loss |-> base_loss, serial |-> serial]

\* connect that records the link at the caller's end only.
connect_OneWay(L, self, other, base_loss, serial) ==
  [L EXCEPT ![self] = DictPut(@, other, Link(self, other, base_loss, serial))]

\* Node.connect: L is the links mapping of every node.
connect(L, self, other, base_loss, serial) ==
  LET link == Link(self, other, base_loss, serial)
      L1   == [L EXCEPT ![self] = DictPut(@, other, link)]
  IN  [L1 EXCEPT ![other] = DictPut(@, self, link)]

NoLinks == [n \in Nodes |-> << >>]

\* a.connect(b, 0.05); b.connect(c, 0.08); c.connect(d, 0.12); b.connect(d, 0.25)
DemoConnects ==
  << [self |-> "A", other |-> "B", base_loss |-> 50],
     [self |-> "B", other |-> "C", base_loss |-> 80],
     [self |-> "C", other |-> "D", base_loss |-> 120],
     [self |-> "B", other |-> "D", base_loss |-> 250] >>

RECURSIVE ConnectAll(_, _, _)
ConnectAll(L, calls, i) ==
  IF i > Len(calls) THEN L
  ELSE ConnectAll(connect(L, calls[i].self, calls[i].other, calls[i].base_loss, i),
                  calls, i + 1)

DemoLinks == ConnectAll(NoLinks, DemoConnects, 1)

\* Message(src, dst, text, gps): the fields the mesh reads and writes.  The
\* driver constructs its messages in one go, at time 0.
Message(src, dst, kw, blank, gps) ==
  [src |-> src, dst |-> dst, text |-> [kw |-> kw, blank |-> blank], gps |-> gps,
   timestamp |-> 0, tag_distress |-> FALSE, priority |-> 0, mtype |-> UNKNOWN, hops |-> 0,
   path |-> << >>]

\* msgs of demo.main, each text by the keywords that occur in it.
DemoMsgs ==
  << Message("A", "D", {"help", "trapped"}, FALSE, TRUE),
     Message("B", "D", {"status", "ok"}, FALSE, FALSE),
     Message("C", "D", {"water", "medicine"}, FALSE, FALSE),
     Message("A", "D", {"gps", "coordinates", "lat", "lon"}, FALSE, TRUE),
     Message("B", "D", {"fire"}, FALSE, FALSE) >>

\* How many of the messages of demo.main the driver injects.
NumMsgs == 1

(***************************************************************************)
(* State                                                                   *)
(***************************************************************************)
VARIABLES
  links,        \* Node.links of every node
  connects,     \* history: the calls of connect so far, one Link each
  pc,           \* where each node's run() is: idle (no task), created (task
                \* scheduled, not yet run), sleep (in asyncio.sleep), batch
                \* (in a tick), done (run returned)
  running,      \* Node._running
  in_queue,     \* Node._in_queue: message ids
  out_stats,    \* Node._out_stats
  delivered,    \* Node._delivered: message ids
  msg,          \* the Message objects, by id
  injected,     \* how many messages the driver has handed to receive()
  turn,         \* the node whose tick is open, or None
  batch,        \* iterations left of the for loop of the open tick
  snap,         \* the list delivered() returned last
  stop_called,  \* history: stop() has been called on a launched node
  arrivals,     \* history: the ids receive() appended, per node, in order
  popped,       \* history: messages dequeued in the open (or last) tick
  now,          \* the clock: the last value time.time() returned
  call          \* a call of a function of LMLModel: arguments and result

vars == << links, connects, pc, running, in_queue, out_stats, delivered, msg,
           injected, turn, batch, snap, stop_called, arrivals, popped, now,
           call >>

meshVars == << links, connects, pc, running, in_queue, out_stats, delivered, msg,
               injected, turn, batch, snap, stop_called, arrivals, popped,
               now >>

NoSnap == [taken |-> FALSE]

NoCall == [op |-> "none"]

ZeroStats ==
  [in_count |-> 0, out_count |-> 0, fail_count |-> 0, attempts |-> 0,
   queue_len |-> 0]

\* receive appending the message twice.
receive_Twice(Q, n, m) == [Q EXCEPT ![n] = Append(Append(@, m), m)]

\* Node.receive
receive(Q, n, m) == [Q EXCEPT ![n] = Append(@, m)]

\* for m in msgs: <node m.src>.receive(m), for the first k messages of M.
RECURSIVE InjectAll(_, _, _)
InjectAll(Q, M, k) ==
  IF k = 0 THEN Q ELSE receive(InjectAll(Q, M, k - 1), M[k].src, k)

\* Node.__init__ for every node, and the driver up to the first step of any
\* run(); L: the links, C: the calls that made them, P: the state of each run(),
\* M: the messages constructed, k: how many of them are injected already.
Constructed(L, C, P, M, k) ==
  /\ links = L
  /\ connects = C
  /\ pc = P
  /\ running = [x \in Nodes |-> P[x] = "sleep"]
  /\ in_queue = InjectAll([x \in Nodes |-> << >>], M, k)
  /\ out_stats = [x \in Nodes |-> ZeroStats]
  /\ delivered = [x \in Nodes |-> << >>]
  /\ msg = M
  /\ injected = k
  /\ turn = None
  /\ batch = 0
  /\ snap = NoSnap
  /\ stop_called = [x \in Nodes |-> FALSE]
  /\ arrivals = InjectAll([x \in Nodes |-> << >>], M, k)
  /\ popped = 0
  /\ now = 0

\* The messages of demo.main the driver constructs and injects.
DemoRun == SubSeq(DemoMsgs, 1, Min(NumMsgs, Len(DemoMsgs)))

\* demo.main when it reaches asyncio.sleep(2.0): the nodes connected, the
\* tasks created, the messages injected; and every run() arrived at its first
\* asyncio.sleep.
Init ==
  /\ Constructed(DemoLinks, DemoConnects, [x \in Nodes |-> "sleep"], DemoRun,
                 Len(DemoRun))
  /\ call = NoCall

(***************************************************************************)
(* The driver's injection loop, one message at a time                      *)
(***************************************************************************)
\* <node m.src>.receive(m) for the next message of msgs
Inject ==
  /\ turn = None
  /\ injected < Len(msg)
  /\ LET m == injected + 1
     IN  /\ in_queue' = receive(in_queue, msg[m].src, m)
         /\ arrivals' = [arrivals EXCEPT ![msg[m].src] = Append(@, m)]
  /\ injected' = injected + 1
  /\ UNCHANGED << links, connects, pc, running, out_stats, delivered, msg, turn,
                  batch, snap, stop_called, popped, now, call >>

(***************************************************************************)
(* Node.run                                                                *)
(***************************************************************************)
BATCH_LIMIT == 5

\* A tick that drains the whole queue.
BatchSize_NoLimit(n) == Len(in_queue[n])

\* range(min(5, len(self._in_queue)))
BatchSize(n) == Min(BATCH_LIMIT, Len(in_queue[n]))

\* asyncio.sleep returns; lines 54 and 56.
TickBegin(n) ==
  /\ turn = None
  /\ pc[n] = "sleep"
  /\ pc' = [pc EXCEPT ![n] = "batch"]
  /\ turn' = n
  /\ out_stats' = [out_stats EXCEPT ![n].queue_len = Len(in_queue[n])]
  /\ batch' = BatchSize(n)
  /\ popped' = 0
  /\ UNCHANGED << links, connects, running, in_queue, delivered, msg, injected,
                  snap, stop_called, arrivals, now, call >>

\* round(x * 0.8) in the place of int(x * 0.8).
Decay_Round(x) == (x * 8 + 5) \div 10

\* int(x * 0.8)
Decay(x) == (x * 4) \div 5

\* The end of a tick with 'fail_count' missing from the list of line 67.
TickEnd_NoFailDecay(n) ==
  /\ turn = n
  /\ batch = 0
  /\ out_stats' = [out_stats EXCEPT
                     ![n].in_count = Decay(@), ![n].out_count = Decay(@),
                     ![n].attempts = Decay(@)]
  /\ pc' = [pc EXCEPT ![n] = IF running[n] THEN "sleep" ELSE "done"]
  /\ turn' = None
  /\ UNCHANGED << links, connects, running, in_queue, delivered, msg, injected,
                  batch, snap, stop_called, arrivals, popped, now, call >>

\* Lines 62-68, then the test of the while loop and the next sleep.
TickEnd(n) ==
  /\ turn = n
  /\ batch = 0
  /\ out_stats' = [out_stats EXCEPT
                     ![n].in_count = Decay(@), ![n].out_count = Decay(@),
                     ![n].fail_count = Decay(@), ![n].attempts = Decay(@)]
  /\ pc' = [pc EXCEPT ![n] = IF running[n] THEN "sleep" ELSE "done"]
  /\ turn' = None
  /\ UNCHANGED << links, connects, running, in_queue, delivered, msg, injected,
                  batch, snap, stop_called, arrivals, popped, now, call >>

(***************************************************************************)
(* Node.process_message                                                    *)
(***************************************************************************)
\* process_message without its test of the path.
InPath_Never(n, m) == FALSE

\* self.id in msg.path
InPath(n, m) == n \in Range(msg[m].path)

\* The two ends of the link taken for one another.
Neighbour_Swapped(n, link) == IF link.b = n THEN link.b ELSE link.a

\* neigh = link.a if link.b.id == self.id else link.b
Neighbour(n, link) == IF link.b = n THEN link.a ELSE link.b

\* Lines 74-81 without line 74: the node is not appended to the path.
Stamp_NoAppend(n, o, qlen, age) ==
  LET c  == classify(o)
      o1 == [o EXCEPT !.mtype = c.mtype,
                      !.tag_distress = @ \/ (c.mtype = DISTRESS /\ c.conf > 700)]
  IN  [o1 EXCEPT !.priority = prioritize(o1, qlen, age)]

\* Lines 74-81 without line 78: the type found is not stored in the message.
Stamp_NoClassify(n, o, qlen, age) ==
  LET c  == classify(o)
      o1 == [o EXCEPT !.path = Append(@, n),
                      !.tag_distress = @ \/ (c.mtype = DISTRESS /\ c.conf > 700)]
  IN  [o1 EXCEPT !.priority = prioritize(o1, qlen, age)]

\* Lines 74-81: the path, the type, the distress tag, the priority.  qlen is
\* len(self._in_queue), the message itself already dequeued.
Stamp(n, o, qlen, age) ==
  LET c  == classify(o)
      o1 == [o EXCEPT !.path = Append(@, n), !.mtype = c.mtype,
                      !.tag_distress = @ \/ (c.mtype = DISTRESS /\ c.conf > 700)]
  IN  [o1 EXCEPT !.priority = prioritize(o1, qlen, age)]

\* The delivery condition without its test for None.
DeliveredHere_DstOnly(n, o) == o.dst = n

\* msg.dst is None or msg.dst == self.id
DeliveredHere(n, o) == o.dst = None \/ o.dst = n

\* Lines 90-93: next_hops, in the order of self.links; Q: the queues as they
\* are when the statistics are read, draws: the two random draws per link.
NextHops(n, Q, draws) ==
  [i \in 1..Len(links[n]) |->
     LET link  == links[n][i].link
         neigh == Neighbour(n, link)
     IN  [nid   |-> links[n][i].nid,
          stats |-> stats_for(link, n, neigh, Len(Q[neigh]),
                              draws[i][1], draws[i][2])]]

\* Line 95: what self.model.route may return, over the random draws of the
\* statistics.
RouteChoices(n, Q, priority) ==
  {route(NextHops(n, Q, draws), priority) :
     draws \in [1..Len(links[n]) -> RandDraws \X RandDraws]}

\* random.random() < link.base_loss
Lost(u, link) == u < link.base_loss

\* Lines 96-97 with the send counted as attempted before the test of nxt.
NoRoute_CountsAttempt(n, m, o, Q1, S1) ==
  /\ msg' = [msg EXCEPT ![m] = o]
  /\ in_queue' = Q1
  /\ out_stats' = [S1 EXCEPT ![n].attempts = @ + 1]
  /\ UNCHANGED << delivered, arrivals >>

\* Lines 96-97: route returned None; the message, stamped, goes nowhere.
NoRoute(n, m, o, Q1, S1) ==
  /\ msg' = [msg EXCEPT ![m] = o]
  /\ in_queue' = Q1
  /\ out_stats' = S1
  /\ UNCHANGED << delivered, arrivals >>

\* A send that leaves msg.hops as it is.
Hopped_Not(o) == o

\* msg.hops += 1
Hopped(o) == [o EXCEPT !.hops = @ + 1]

\* One iteration of the for loop of run (lines 57-59).
ProcessMessage(n) ==
  /\ turn = n
  /\ batch > 0
  /\ batch' = batch - 1
  /\ popped' = popped + 1
  /\ LET m  == Head(in_queue[n])
         Q1 == [in_queue EXCEPT ![n] = Tail(@)]
         S1 == [out_stats EXCEPT ![n].in_count = @ + 1]
     IN  IF InPath(n, m)
           THEN /\ in_queue' = Q1
                /\ out_stats' = S1
                /\ UNCHANGED << msg, delivered, arrivals, now >>
           ELSE \E t \in Times :
                  /\ t >= now
                  /\ now' = t
                  /\ LET o == Stamp(n, msg[m], Len(Q1[n]), t - msg[m].timestamp)
                     IN  IF DeliveredHere(n, o)
                           THEN /\ msg' = [msg EXCEPT ![m] = o]
                                /\ delivered' = [delivered EXCEPT ![n] = Append(@, m)]
                                /\ in_queue' = Q1
                                /\ out_stats' = S1
                                /\ UNCHANGED arrivals
                           ELSE \E nxt \in RouteChoices(n, Q1, o.priority) :
                                  IF nxt = None
                                    THEN NoRoute(n, m, o, Q1, S1)
                                    ELSE \E u \in RandDraws :
                                           LET link  == DictGet(links[n], nxt)
                                               neigh == Neighbour(n, link)
                                               S2 == [S1 EXCEPT ![n].attempts = @ + 1]
                                           IN  IF Lost(u, link)
                                                 THEN /\ msg' = [msg EXCEPT ![m] = o]
                                                      /\ in_queue' = Q1
                                                      /\ out_stats' =
                                                           [S2 EXCEPT ![n].fail_count = @ + 1]
                                                      /\ UNCHANGED << delivered, arrivals >>
                                                 ELSE /\ msg' = [msg EXCEPT ![m] = Hopped(o)]
                                                      /\ in_queue' = receive(Q1, neigh, m)
                                                      /\ arrivals' = [arrivals EXCEPT
                                                                        ![neigh] = Append(@, m)]
                                                      /\ out_stats' =
                                                           [S2 EXCEPT ![n].out_count = @ + 1]
                                                      /\ UNCHANGED delivered
  /\ UNCHANGED << links, connects, pc, running, injected, turn, snap, stop_called,
                  call >>

(***************************************************************************)
(* The driver: start, stop, delivered                                      *)
(***************************************************************************)
\* asyncio.create_task(n.run())
Start(n) ==
  /\ turn = None
  /\ pc[n] = "idle"
  /\ pc' = [pc EXCEPT ![n] = "created"]
  /\ UNCHANGED << links, connects, running, in_queue, out_stats, delivered, msg,
                  injected, turn, batch, snap, stop_called, arrivals, popped, now,
                  call >>

\* The task's first step: lines 51-53, up to the first asyncio.sleep.
RunStart(n) ==
  /\ turn = None
  /\ pc[n] = "created"
  /\ running' = [running EXCEPT ![n] = TRUE]
  /\ pc' = [pc EXCEPT ![n] = "sleep"]
  /\ UNCHANGED << links, connects, in_queue, out_stats, delivered, msg, injected,
                  turn, batch, snap, stop_called, arrivals, popped, now, call >>

\* Node.stop, called on a node whose run() has been launched.
Stop(n) ==
  /\ turn = None
  /\ pc[n] # "idle"
  /\ running' = [running EXCEPT ![n] = FALSE]
  /\ stop_called' = [stop_called EXCEPT ![n] = TRUE]
  /\ UNCHANGED << links, connects, pc, in_queue, out_stats, delivered, msg,
                  injected, turn, batch, snap, arrivals, popped, now, call >>

\* Node.delivered: list(self._delivered), a new list of the same Message
\* objects.  alias tells a list that is the sink itself from a copy; at holds
\* what the caller saw in the list when it was returned.
\* delivered() returning self._delivered itself.
CopyOf_Alias(n) == [alias |-> TRUE, list |-> delivered[n]]

CopyOf(n) == [alias |-> FALSE, list |-> delivered[n]]

DeliveredSnapshot(n) ==
  /\ turn = None
  /\ LET r == CopyOf(n)
     IN  snap' = [taken |-> TRUE, node |-> n, alias |-> r.alias, list |-> r.list,
                  at |-> [i \in 1..Len(r.list) |-> msg[r.list[i]]]]
  /\ UNCHANGED << links, connects, pc, running, in_queue, out_stats, delivered,
                  msg, injected, turn, batch, stop_called, arrivals, popped, now,
                  call >>

\* The list the caller holds now.
SnapList == IF snap.alias THEN delivered[snap.node] ELSE snap.list

Tick ==
  \E n \in Nodes : TickBegin(n) \/ ProcessMessage(n) \/ TickEnd(n)

Next == Tick

Spec == Init /\ [][Next]_vars

(***************************************************************************)
(* The life of the loops: the driver launches and stops the run() of each  *)
(* node at any moment between two steps, and injects the messages.         *)
(***************************************************************************)
LifeInit ==
  /\ Constructed(DemoLinks, DemoConnects, [x \in Nodes |-> "idle"], DemoRun, 0)
  /\ call = NoCall

LifeNext ==
  \/ Inject
  \/ Tick
  \/ \E n \in Nodes : Start(n) \/ RunStart(n) \/ Stop(n)

\* The event loop runs every task that is ready: a created task gets its
\* first step, a sleep that has elapsed returns, an open tick goes on.
LifeFairness ==
  \A n \in Nodes :
    /\ SF_vars(RunStart(n))
    /\ SF_vars(TickBegin(n))
    /\ WF_vars(ProcessMessage(n))
    /\ WF_vars(TickEnd(n))

LifeSpec == LifeInit /\ [][LifeNext]_vars /\ LifeFairness

\* C3: once stop() has been called on a node whose run() was launched, the
\* loop eventually exits and stays exited.
C3_StopEventuallyExits ==
  \A n \in Nodes : stop_called[n] ~> [](pc[n] = "done")

(***************************************************************************)
(* Properties                                                              *)
(***************************************************************************)
Path(m) == msg[m].path

\* Message m is in no inbound queue and in no delivered sink.
Nowhere(m) ==
  \A n \in Nodes : m \notin Range(in_queue[n]) /\ m \notin Range(delivered[n])

NoRepeat(s) == \A i, j \in 1..Len(s) : i # j => s[i] # s[j]

\* Node n is about to process message m, as the next step, and the path of
\* m holds n.
Represented(n, m) ==
  /\ turn = n
  /\ batch > 0
  /\ m = Head(in_queue[n])
  /\ n \in Range(Path(m))

\* C1: a node that processes a message whose path already holds the node's
\* id leaves the message as it is (path, hops, type, priority and all), only
\* takes it off its own queue, and puts it in no queue and no sink; and in
\* every state no path holds a node id twice.
C1_LoopPrevention ==
  [][ /\ \A n \in Nodes, m \in DOMAIN msg :
           Represented(n, m) =>
             /\ msg' = msg
             /\ delivered' = delivered
             /\ in_queue' = [in_queue EXCEPT ![n] = Tail(@)]
             /\ Nowhere(m)'
      /\ \A m \in DOMAIN msg : NoRepeat(Path(m))' ]_vars

\* A node has just dropped a message that came back to it: the message's
\* path holds the node, not as its last entry, and the message is nowhere.
C1_Witness ==
  \E n \in Nodes, m \in DOMAIN msg :
    /\ turn = n
    /\ popped > 0
    /\ out_stats[n].in_count > 0
    /\ n \in Range(Path(m))
    /\ Path(m)[Len(Path(m))] # n
    /\ msg[m].hops = Len(Path(m))
    /\ Nowhere(m)

\* The first message of demo.main: from A to D, with distress keywords and a
\* coordinate.
IsDemoDistress(m) ==
  /\ msg[m].src = "A"
  /\ msg[m].dst = "D"
  /\ "help" \in msg[m].text.kw
  /\ msg[m].gps

\* C2: on the demo topology the message from A to D is never handed to a
\* node that is already in its path, so that loop detection never drops it.
C2_NeverForwardedToVisited ==
  \A n \in Nodes : \A i \in 1..Len(in_queue[n]) :
    IsDemoDistress(in_queue[n][i]) => n \notin Range(Path(in_queue[n][i]))

(***************************************************************************)
(* A backlog at one node.  D is also linked to itself (d.connect(d)), the  *)
(* one way a message is enqueued at a node during that node's own tick.    *)
(* The driver injects, one at a time and at any moment between two steps,  *)
(* messages with the texts of demo.main, all at D: every third is for A    *)
(* (D forwards it), the others have no destination (D delivers them).  It  *)
(* reads D's delivered() at any moment.  Only D's run() is launched.       *)
(***************************************************************************)
BatchMsgCount == 6

\* demo.main prints d.delivered()
Responder == "D"

BatchConnects ==
  DemoConnects \o << [self |-> "D", other |-> "D", base_loss |-> 100] >>

BatchLinks == ConnectAll(NoLinks, BatchConnects, 1)

BatchMsgs ==
  [i \in 1..BatchMsgCount |->
     [DemoMsgs[((i - 1) % Len(DemoMsgs)) + 1] EXCEPT
        !.src = "D", !.dst = IF i % 3 = 0 THEN "A" ELSE None]]

BatchInit ==
  /\ Constructed(BatchLinks, BatchConnects,
                 [x \in Nodes |-> IF x = Responder THEN "sleep" ELSE "idle"],
                 BatchMsgs, 0)
  /\ call = NoCall

BatchNext ==
  \/ Inject
  \/ Tick
  \/ DeliveredSnapshot(Responder)

BatchSpec == BatchInit /\ [][BatchNext]_vars

\* The queue of n holds the messages that arrived at n and are not yet
\* dequeued, in the order of arrival.
Fifo(n) ==
  LET k == Len(arrivals[n]) - Len(in_queue[n])
  IN  k >= 0 /\ in_queue[n] = SubSeq(arrivals[n], k + 1, Len(arrivals[n]))

\* C4: a tick dequeues exactly min(5, length of the queue when the tick
\* began) messages; each is the head of the queue, so messages leave a node
\* in the order in which they arrived there; whatever is enqueued during
\* the tick goes behind them and is left for a later tick.
C4_FifoBatch ==
  [][ /\ \A n \in Nodes :
           /\ (turn = None /\ turn' = n) =>
                /\ in_queue' = in_queue
                /\ out_stats'[n].queue_len = Len(in_queue[n])
                /\ popped' = 0
                /\ batch' = Min(BATCH_LIMIT, Len(in_queue[n]))
           /\ (turn = n /\ popped' # popped) =>
                /\ in_queue[n] # << >>
                /\ popped' = popped + 1
                /\ batch' = batch - 1
                /\ IsPrefix(Tail(in_queue[n]), in_queue'[n])
                /\ \A x \in Nodes \ {n} : IsPrefix(in_queue[x], in_queue'[x])
           /\ (turn = n /\ turn' = None) =>
                /\ popped = Min(BATCH_LIMIT, out_stats[n].queue_len)
                /\ in_queue' = in_queue
           /\ Fifo(n)'
      /\ turn' # None =>
           popped' + batch' = Min(BATCH_LIMIT, out_stats'[turn'].queue_len) ]_vars

\* A tick that began with more than 5 messages has dequeued 5, and a
\* message enqueued during the tick waits behind the one it left.
C4_Witness ==
  \E n \in Nodes :
    /\ turn = n
    /\ out_stats[n].queue_len > BATCH_LIMIT
    /\ popped = BATCH_LIMIT
    /\ batch = 0
    /\ Len(in_queue[n]) > out_stats[n].queue_len - popped

\* C6: a delivered sink only grows at its end; the list delivered()
\* returned keeps the messages it held when it was returned, and each of
\* them keeps the path, type, priority and hop count it had then.
C6_SinkAppendOnly ==
  [][ /\ \A n \in Nodes : IsPrefix(delivered[n], delivered'[n])
      /\ snap'.taken =>
           /\ Len(SnapList') = Len(snap'.at)
           /\ \A i \in 1..Len(snap'.at) : msg'[SnapList'[i]] = snap'.at[i]
      /\ (snap.taken /\ snap' = snap) => SnapList' = SnapList ]_vars

\* A list returned by delivered() with a message in it, and the sink has
\* received another message since.
C6_Witness ==
  /\ snap.taken
  /\ Len(snap.list) >= 1
  /\ Len(delivered[snap.node]) > Len(snap.list)

(***************************************************************************)
(* Node.connect called on the running mesh: the driver of demo.main, once  *)
(* its four links are made, connects further pairs of nodes (a node with   *)
(* itself included) between the steps of the loops.  A's and B's run() are *)
(* launched and the first message of demo.main is injected at some moment. *)
(***************************************************************************)
MaxConnects == 1

\* The nodes and base losses of the further calls.
ConnectNodes == {"A", "B", "C"}

ConnectLosses == {50, 250}

ConnInit ==
  /\ Constructed(DemoLinks, DemoConnects,
                 [x \in Nodes |-> IF x \in {"A", "B"} THEN "sleep" ELSE "idle"],
                 SubSeq(DemoMsgs, 1, 1), 0)
  /\ call = NoCall

\* self.connect(other, base_loss)
Connect(self, other, base_loss) ==
  /\ turn = None
  /\ Len(connects) < Len(DemoConnects) + MaxConnects
  /\ links' = connect(links, self, other, base_loss, Len(connects) + 1)
  /\ connects' = Append(connects, [self |-> self, other |-> other,
                                   base_loss |-> base_loss])
  /\ UNCHANGED << pc, running, in_queue, out_stats, delivered, msg, injected,
                  turn, batch, snap, stop_called, arrivals, popped, now, call >>

ConnNext ==
  \/ \E self \in ConnectNodes, other \in ConnectNodes, base_loss \in ConnectLosses :
       Connect(self, other, base_loss)
  \/ Inject
  \/ Tick

ConnSpec == ConnInit /\ [][ConnNext]_vars

\* The calls of connect between x and y, in either direction.
Between(x, y) ==
  {k \in 1..Len(connects) :
     {connects[k].self, connects[k].other} = {x, y}}

Latest(x, y) == CHOOSE k \in Between(x, y) : \A j \in Between(x, y) : j <= k

\* The entry of y in x.links: << >> when there is none, else << the Link >>.
Entry(L, x, y) == IF y \in Keys(L[x]) THEN << DictGet(L[x], y) >> ELSE << >>

\* C5: y is a key of x.links iff x is a key of y.links iff connect was called
\* between them; both entries are the one Link made by the latest such call,
\* with the base loss given then; a call of connect leaves the entries of
\* every other pair as they were, and no other step changes any entry.
C5_LinksSymmetric ==
  [][ /\ \A x, y \in Nodes :
           /\ (y \in Keys(links'[x])) = (x \in Keys(links'[y]))
           /\ (y \in Keys(links'[x])) = (Between(x, y)' # {})
           /\ y \in Keys(links'[x]) =>
                /\ DictGet(links'[x], y) = DictGet(links'[y], x)
                /\ DictGet(links'[x], y).serial = Latest(x, y)'
                /\ DictGet(links'[x], y).base_loss
                     = connects'[Latest(x, y)'].base_loss
                /\ {DictGet(links'[x], y).a, DictGet(links'[x], y).b} = {x, y}
           /\ Between(x, y)' = Between(x, y) => Entry(links', x, y) = Entry(links, x, y)
      /\ connects' = connects => links' = links ]_vars

\* A pair that was linked is linked anew, in the other direction and with
\* another base loss, while a message is on its way.
C5_Witness ==
  \E x, y \in Nodes :
    /\ x # y
    /\ Cardinality(Between(x, y)) >= 2
    /\ connects[Latest(x, y)].self = y
    /\ connects[Latest(x, y)].base_loss # connects[1].base_loss
    /\ \E k \in Between(x, y) :
         connects[k].self = x /\ connects[k].base_loss # connects[Latest(x, y)].base_loss
    /\ \E z \in Nodes : in_queue[z] # << >>

(***************************************************************************)
(* LMLModel.anomaly_score.  Times in milliseconds, the score in            *)
(* thousandths.                                                            *)
(***************************************************************************)
\* dt = max(1e-3, now - self._last_tick)
Elapsed(last_tick, t) == Max(1, t - last_tick)

\* 0.6*fail_rate + 0.3*qterm + 0.1*abs(in_rate-out_rate)/(1+in_rate+out_rate)
AnomalyRaw(stats, dt) ==
  LET fail  == (600 * Milli * stats.fail_count) \div (Max(1, stats.attempts) * dt)
      qterm == softclip((stats.queue_len * Milli) \div 50, 0, Milli)
      diff  == IF stats.in_count >= stats.out_count
                 THEN stats.in_count - stats.out_count
                 ELSE stats.out_count - stats.in_count
      skew  == (100 * Milli * diff)
                 \div (dt + Milli * (stats.in_count + stats.out_count))
  IN  fail + (3 * qterm) \div 10 + skew

\* anomaly_score returning the combined score as it is.
anomaly_score_NoClip(stats, last_tick, t) ==
  [score |-> AnomalyRaw(stats, Elapsed(last_tick, t)), last_tick |-> t]

\* anomaly_score(net_ctx) at time t: the score, and self._last_tick after it.
anomaly_score(stats, last_tick, t) ==
  [score |-> softclip(AnomalyRaw(stats, Elapsed(last_tick, t)), 0, Milli),
   last_tick |-> t]

(***************************************************************************)
(* The functions of LMLModel, called on arguments of their own             *)
(***************************************************************************)
Prefix(order, k) == {order[i] : i \in 1..k}

\* A text in which d distress, g geo, s supply and t status keywords occur.
TextOf(d, g, s, t) ==
  [kw |-> Prefix(DistressOrder, d) \cup Prefix(GpsOrder, g)
            \cup Prefix(SupplyOrder, s) \cup Prefix(StatusOrder, t),
   blank |-> FALSE]

BlankText == [kw |-> {}, blank |-> TRUE]

\* Every combination of the four counts, and the empty text; with and
\* without a coordinate.
ClassifyInputs ==
  {[op |-> "classify", ret |-> << >>,
    m |-> Message("A", None, text.kw, text.blank, gps)] :
     text \in {TextOf(d, g, s, t) : d \in 0..Len(DistressOrder), g \in 0..Len(GpsOrder),
                                    s \in 0..Len(SupplyOrder), t \in 0..Len(StatusOrder)}
                \cup {BlankText},
     gps \in BOOLEAN}

\* The most candidates of a call of route with several candidates.
MaxCands == 2

\* Statistics of a lone candidate: beyond what stats_for produces on each
\* side.  Of several candidates: two values of each statistic.
LoneStats ==
  [rssi : {-200 * Milli, -80 * Milli, -45 * Milli, -40 * Milli, 0},
   loss : {0, 50, 300, 900, 1000},
   queue : {0, 1, 5, 60},
   dist : {<< >>, << 0 >>, << 824 >>, << 2400 >>}]

SomeStats ==
  [rssi : {-70 * Milli, -40 * Milli}, loss : {50, 250}, queue : {0},
   dist : {<< >>, << 800 >>}]

CandidateIds == {"A", "B", "C"}

Injective(f) == \A i, j \in DOMAIN f : i # j => f[i] # f[j]

\* The mappings with k keys, each in every order of insertion.
HopsOf(k, S) ==
  {[i \in 1..k |-> [nid |-> ids[i], stats |-> st[i]]] :
     ids \in {f \in [1..k -> CandidateIds] : Injective(f)}, st \in [1..k -> S]}

RouteInputs ==
  {[op |-> "route", ret |-> << >>, next_hops |-> h, priority |-> p] :
     h \in HopsOf(0, LoneStats) \cup HopsOf(1, LoneStats)
            \cup UNION {HopsOf(k, SomeStats) : k \in 2..MaxCands},
     p \in {0, 850}}

\* The counts a node may hand over, the time of the last call and of this
\* one: the clock may stand still or have been set back.
AnomalyInputs ==
  {[op |-> "anomaly_score", ret |-> << >>, stats |-> st, last_tick |-> Milli,
    now |-> t] :
     st \in [in_count : {0, 1, 4, 50}, out_count : {0, 1, 4, 50},
             fail_count : {0, 1, 4, 50}, attempts : {0, 1, 4, 50},
             queue_len : {0, 1, 50, 60}],
     t \in {0, Milli, Milli + 1, Milli + 10, 3 * Milli}}

PureInit ==
  /\ Constructed(DemoLinks, DemoConnects, [x \in Nodes |-> "idle"], << >>, 0)
  /\ call \in ClassifyInputs \cup RouteInputs \cup AnomalyInputs

Classify ==
  /\ call.op = "classify"
  /\ call.ret = << >>
  /\ call' = [call EXCEPT !.ret = << classify(call.m) >>]
  /\ UNCHANGED meshVars

Route ==
  /\ call.op = "route"
  /\ call.ret = << >>
  /\ call' = [call EXCEPT !.ret = << route(call.next_hops, call.priority) >>]
  /\ UNCHANGED meshVars

Anomaly ==
  /\ call.op = "anomaly_score"
  /\ call.ret = << >>
  /\ call' = [call EXCEPT
                !.ret = << anomaly_score(call.stats, call.last_tick, call.now) >>]
  /\ UNCHANGED meshVars

PureNext == Classify \/ Route \/ Anomaly

PureSpec == PureInit /\ [][PureNext]_vars

Returned(op) == call.op = op /\ call.ret # << >>

Count(K, text) == Cardinality(K \cap text.kw)

\* The largest of the distress, supply and status counts of a text.
OtherCount(text) ==
  Max(Count(DISTRESS_KEYWORDS, text),
      Max(Count(SUPPLY_KEYWORDS, text), Count(STATUS_KEYWORDS, text)))

\* C7, as claimed: for every message with a coordinate classify returns GPS.
C7_CoordinateAlwaysGps ==
  (Returned("classify") /\ call.m.gps) => call.ret[1].mtype = GPS

\* C7, amended: for a message with a coordinate classify returns GPS if and
\* only if none of the distress, supply and status counts exceeds the geo
\* count by 3 or more.
C7_CoordinateGpsUnlessOutnumbered ==
  (Returned("classify") /\ call.m.gps) =>
    ((call.ret[1].mtype = GPS)
       = (OtherCount(call.m.text) <= Count(GPS_KEYWORDS, call.m.text) + 2))

\* A message with a coordinate and three distress keywords was classified.
C7_Witness ==
  /\ Returned("classify")
  /\ call.m.gps
  /\ Count(DISTRESS_KEYWORDS, call.m.text) = 3
  /\ Count(GPS_KEYWORDS, call.m.text) = 0
  /\ call.ret[1].mtype = DISTRESS

Classified == {DISTRESS, GPS, SUPPLY, STATUS}

EmptyInput(m) == m.text.blank /\ ~m.gps

\* C8, as claimed: the confidence of a classified type is within
\* [0.10, 0.99], and an empty text without coordinate gives UNKNOWN, 0.20.
C8_ConfidenceWithinBounds ==
  Returned("classify") =>
    /\ call.ret[1].mtype \in Classified =>
         (100 <= call.ret[1].conf /\ call.ret[1].conf <= 990)
    /\ EmptyInput(call.m) =>
         (call.ret[1].mtype = UNKNOWN /\ call.ret[1].conf = 200)

\* C8, amended: the confidence of a classified type is within [0.10, 0.99],
\* except that it is exactly 1.00 for DISTRESS with three or more distress
\* keywords; an empty text without coordinate gives UNKNOWN, 0.20.
C8_ConfidenceBoundsDistressOne ==
  Returned("classify") =>
    /\ call.ret[1].mtype \in Classified =>
         IF call.ret[1].mtype = DISTRESS
              /\ Count(DISTRESS_KEYWORDS, call.m.text) >= 3
           THEN call.ret[1].conf = 1000
           ELSE 100 <= call.ret[1].conf /\ call.ret[1].conf <= 990
    /\ EmptyInput(call.m) =>
         (call.ret[1].mtype = UNKNOWN /\ call.ret[1].conf = 200)

\* DISTRESS was returned with confidence 1.00.
C8_Witness ==
  /\ Returned("classify")
  /\ call.ret[1].mtype = DISTRESS
  /\ call.ret[1].conf = 1000

\* C9: route returns none for the empty mapping and the only candidate's id
\* for a mapping of one candidate, whatever its statistics and the priority.
C9_RouteEmptyAndSingle ==
  Returned("route") =>
    /\ Len(call.next_hops) = 0 => call.ret[1] = None
    /\ Len(call.next_hops) = 1 => call.ret[1] = call.next_hops[1].nid

\* route has returned the only candidate, one whose score is negative.
C9_Witness ==
  /\ Returned("route")
  /\ Len(call.next_hops) = 1
  /\ call.ret[1] = call.next_hops[1].nid
  /\ RouteScore(call.next_hops[1].stats, call.priority) < 0

\* C13: anomaly_score returns a value in [0, 1] (and sets the time of the
\* last call) for all counts and queue lengths, attempts = 0 included, and
\* for every elapsed time, none or negative included.
C13_AnomalyInUnitInterval ==
  Returned("anomaly_score") =>
    /\ 0 <= call.ret[1].score
    /\ call.ret[1].score <= Milli
    /\ call.ret[1].last_tick = call.now

\* Failures without any attempt counted, the clock set back: the score is
\* clipped to 1.
C13_Witness ==
  /\ Returned("anomaly_score")
  /\ call.stats.attempts = 0
  /\ call.stats.fail_count > 0
  /\ call.now < call.last_tick
  /\ call.ret[1].score = Milli

\* The same mapping with its items in the order q.
Reordered(h, q) == [i \in 1..Len(h) |-> h[q[i]]]

Orders(k) == {q \in [1..k -> 1..k] : Injective(q)}

\* C10: what route returns does not depend on the order in which the
\* candidates were inserted into the mapping.
C10_TieBreakOrderFree ==
  Returned("route") =>
    \A q \in Orders(Len(call.next_hops)) :
      route(Reordered(call.next_hops, q), call.priority) = call.ret[1]

(***************************************************************************)
(* A relay: A - B - C, and D linked to nobody.  The driver injects, one at *)
(* a time and at any moment between two steps, a message from A for C (B   *)
(* relays it), one from B without destination and one from D for A (D has  *)
(* no route).  Every run() is launched.                                    *)
(***************************************************************************)
RelayConnects ==
  << [self |-> "A", other |-> "B", base_loss |-> 50],
     [self |-> "B", other |-> "C", base_loss |-> 80] >>

RelayLinks == ConnectAll(NoLinks, RelayConnects, 1)

RelayMsgs ==
  << [DemoMsgs[1] EXCEPT !.dst = "C"], [DemoMsgs[2] EXCEPT !.dst = None],
     [DemoMsgs[3] EXCEPT !.src = "D", !.dst = "A"] >>

RelayInit ==
  /\ Constructed(RelayLinks, RelayConnects, [x \in Nodes |-> "sleep"],
                 RelayMsgs, 0)
  /\ call = NoCall

RelayNext == Inject \/ Tick

RelaySpec == RelayInit /\ [][RelayNext]_vars

(***************************************************************************)
(* Load at one node: B is linked to A only.  The driver injects, one at a  *)
(* time and at any moment between two steps, messages from B for D; only   *)
(* B's run() is launched, so what B sends stays in the queue of A.  When   *)
(* B's queue is empty its ticks go on, idle.                               *)
(***************************************************************************)
LoadMsgCount == 5

LoadConnects == << [self |-> "A", other |-> "B", base_loss |-> 50] >>

LoadLinks == ConnectAll(NoLinks, LoadConnects, 1)

Relay == "B"

LoadMsgs ==
  [i \in 1..LoadMsgCount |->
     [DemoMsgs[((i - 1) % Len(DemoMsgs)) + 1] EXCEPT !.src = Relay, !.dst = "D"]]

LoadInit ==
  /\ Constructed(LoadLinks, LoadConnects,
                 [x \in Nodes |-> IF x = Relay THEN "sleep" ELSE "idle"],
                 LoadMsgs, 0)
  /\ call = NoCall

LoadNext == Inject \/ Tick

LoadSpec == LoadInit /\ [][LoadNext]_vars

Counters == {"in_count", "out_count", "fail_count", "attempts"}

\* The step that ends a tick of n in which the queue was empty.
IdleTickEnd(n) ==
  /\ turn = n
  /\ batch = 0
  /\ popped = 0
  /\ out_stats[n].queue_len = 0
  /\ turn' = None

\* C11, as claimed: an idle tick leaves each rolling counter at exactly 0.8
\* times its value before the tick.
C11_DecayExact ==
  [][ \A n \in Nodes : IdleTickEnd(n) =>
        \A k \in Counters : 5 * out_stats'[n][k] = 4 * out_stats[n][k] ]_vars

\* C11, amended: an idle tick leaves each rolling counter at the integer part
\* of 0.8 times its value before the tick, which is less than that value
\* unless the counter is 0 already.
C11_DecayTruncated ==
  [][ \A n \in Nodes : IdleTickEnd(n) =>
        \A k \in Counters :
          /\ 5 * out_stats'[n][k] <= 4 * out_stats[n][k]
          /\ 4 * out_stats[n][k] < 5 * out_stats'[n][k] + 5
          /\ out_stats[n][k] > 0 => out_stats'[n][k] < out_stats[n][k] ]_vars

\* An idle tick of the relay has ended and has left, of 4 messages counted
\* as inbound, 3.
C11_Witness ==
  /\ turn = None
  /\ pc[Relay] = "sleep"
  /\ popped = 0
  /\ out_stats[Relay].queue_len = 0
  /\ out_stats[Relay].in_count = 3

(***************************************************************************)
(* demo.main to its end: the mesh runs, and the driver reads D's           *)
(* delivered() (at any moment between two steps).                          *)
(***************************************************************************)
DemoNext == Next \/ DeliveredSnapshot(Responder)

DemoSpec == Init /\ [][DemoNext]_vars

\* C12: whenever the demo's message from A for D, with distress keywords and
\* a coordinate, is in the list D's delivered() returned, its path has 2 to 4
\* entries, its type is DISTRESS or GPS and its priority is at least 0.75.
C12_DeliveredDistress ==
  snap.taken =>
    \A i \in 1..Len(SnapList) :
      IsDemoDistress(SnapList[i]) =>
        /\ Len(Path(SnapList[i])) \in 2..4
        /\ msg[SnapList[i]].mtype \in {DISTRESS, GPS}
        /\ msg[SnapList[i]].priority >= 750
        /\ snap.at[i] = msg[SnapList[i]]

\* The driver holds D's list with the message in it, come by A, B, C and D.
C12_Witness ==
  /\ snap.taken
  /\ \E i \in 1..Len(SnapList) :
       /\ IsDemoDistress(SnapList[i])
       /\ Path(SnapList[i]) = << "A", "B", "C", "D" >>
       /\ msg[SnapList[i]].mtype = GPS
       /\ msg[SnapList[i]].priority = GPS_DISTRESS_PRIO

\* Node n processes message m as the next step.
Processing(n, m) ==
  /\ turn = n
  /\ batch > 0
  /\ m = Head(in_queue[n])

\* C14: a node appends the message it processes to its sink if and only if
\* it is not in the message's path and the message has no destination or
\* this node as destination; no other step and no other sink takes a message;
\* a message without destination is delivered by the first node to process
\* it; a message in a sink is in the sink of its destination (if it has one),
\* in no queue, and stays in the sink as it is.
C14_DeliveryTerminal ==
  [][ /\ \A n \in Nodes, m \in DOMAIN msg :
           Processing(n, m) =>
             /\ delivered'[n] =
                  IF n \notin Range(Path(m)) /\ (msg[m].dst = None \/ msg[m].dst = n)
                    THEN Append(delivered[n], m)
                    ELSE delivered[n]
             /\ \A x \in Nodes \ {n} : delivered'[x] = delivered[x]
             /\ msg[m].dst = None => Path(m) = << >>
      /\ (\A n \in Nodes : turn # n \/ batch = 0) => delivered' = delivered
      /\ \A n \in Nodes, m \in DOMAIN msg :
           m \in Range(delivered'[n]) =>
             /\ msg'[m].dst \in {None, n}
             /\ \A x \in Nodes : m \notin Range(in_queue'[x])
             /\ m \in Range(delivered[n]) => msg'[m] = msg[m] ]_vars

\* The message for C is in C's sink, come by A and B, and the message
\* without destination is in the sink of B, where it was injected.
C14_Witness ==
  /\ \E m \in DOMAIN msg :
       /\ msg[m].dst = "C"
       /\ m \in Range(delivered["C"])
       /\ Path(m) = << "A", "B", "C" >>
  /\ \E m \in DOMAIN msg :
       /\ msg[m].dst = None
       /\ m \in Range(delivered["B"])
       /\ Path(m) = << "B" >>

\* C15: when a node processes a message, either nothing is attempted (the
\* attempted, failed and outbound counters and every other queue stay) or
\* attempted grows by one and exactly one of: (loss) failed grows by one, the
\* message is afterwards in no queue and no sink and its hop count is as
\* before; (success) outbound grows by one, the hop count grows by one and
\* the message is appended at the tail of the queue of the neighbour the
\* router chose, and of no other queue.  A message that is nowhere stays
\* nowhere: nothing is sent again.
C15_SendOutcome ==
  [][ /\ \A n \in Nodes, m \in DOMAIN msg :
           Processing(n, m) =>
             LET Q1  == [in_queue EXCEPT ![n] = Tail(@)]
                 old == out_stats[n]
                 new == out_stats'[n]
             IN  \/ /\ new.attempts = old.attempts
                    /\ new.fail_count = old.fail_count
                    /\ new.out_count = old.out_count
                    /\ in_queue' = Q1
                 \/ /\ new.attempts = old.attempts + 1
                    /\ new.fail_count = old.fail_count + 1
                    /\ new.out_count = old.out_count
                    /\ in_queue' = Q1
                    /\ Nowhere(m)'
                    /\ msg'[m].hops = msg[m].hops
                 \/ /\ new.attempts = old.attempts + 1
                    /\ new.fail_count = old.fail_count
                    /\ new.out_count = old.out_count + 1
                    /\ msg'[m].hops = msg[m].hops + 1
                    /\ delivered' = delivered
                    /\ \E x \in Keys(links[n]) :
                         /\ x \in RouteChoices(n, Q1, msg'[m].priority)
                         /\ in_queue' = [Q1 EXCEPT ![x] = Append(@, m)]
      /\ \A m \in DOMAIN msg :
           (m <= injected /\ Nowhere(m)) => (Nowhere(m)' /\ msg'[m] = msg[m]) ]_vars

\* A sent the message to B with success and B has just lost it on its way
\* on: one hop, B's failed counter at 1, the message nowhere.
C15_Witness ==
  \E m \in DOMAIN msg :
    /\ turn = "B"
    /\ popped > 0
    /\ Path(m) = << "A", "B" >>
    /\ msg[m].hops = 1
    /\ out_stats["B"].attempts = 1
    /\ out_stats["B"].fail_count = 1
    /\ Nowhere(m)

\* Node n has no link.
Isolated(n) == links[n] = << >>

\* C16: when a node without neighbours processes a message for another
\* node, its attempted, outbound and failed counters stay as they are, every
\* other queue and every sink stays as it is and the message is afterwards
\* nowhere; a message whose path ends at such a node, and which is
\* nowhere, stays nowhere and as it is.
C16_NoRouteDrop ==
  [][ /\ \A n \in Nodes, m \in DOMAIN msg :
           (Processing(n, m) /\ Isolated(n) /\ msg[m].dst \notin {None, n}) =>
             /\ out_stats'[n].attempts = out_stats[n].attempts
             /\ out_stats'[n].out_count = out_stats[n].out_count
             /\ out_stats'[n].fail_count = out_stats[n].fail_count
             /\ in_queue' = [in_queue EXCEPT ![n] = Tail(@)]
             /\ delivered' = delivered
             /\ Nowhere(m)'
             /\ Path(m)' = Append(Path(m), n)
      /\ \A n \in Nodes, m \in DOMAIN msg :
           (/\ Isolated(n)
            /\ Nowhere(m)
            /\ Path(m) # << >>
            /\ Path(m)[Len(Path(m))] = n) =>
             (Nowhere(m)' /\ msg'[m] = msg[m]) ]_vars

\* D, linked to nobody, has just processed the message for A: it counts as
\* inbound, nothing was attempted, and the message is nowhere.
C16_Witness ==
  \E m \in DOMAIN msg :
    /\ turn = "D"
    /\ popped > 0
    /\ Isolated("D")
    /\ msg[m].dst = "A"
    /\ Path(m) = << "D" >>
    /\ Nowhere(m)
    /\ out_stats["D"].in_count = 1
    /\ out_stats["D"].attempts = 0

\* The places that hold message m: positions of queues and of sinks.
Places(m) ==
  UNION {{<< "in_queue", n, i >> : i \in {j \in 1..Len(in_queue[n]) : in_queue[n][j] = m}}
           \cup {<< "delivered", n, i >> :
                   i \in {j \in 1..Len(delivered[n]) : delivered[n][j] = m}} :
         n \in Nodes}

\* C17: each message handed to receive() once by the driver is in at most
\* one place, a position of a queue or of a sink; one not yet injected is in
\* none; so the queues and sinks together hold no more than was injected.
C17_NoDuplication ==
  /\ \A m \in DOMAIN msg :
       Cardinality(Places(m)) <= (IF m <= injected THEN 1 ELSE 0)
  /\ Cardinality(UNION {Places(m) : m \in DOMAIN msg}) <= injected
  /\ \A n \in Nodes :
       Range(in_queue[n]) \cup Range(delivered[n]) \subseteq DOMAIN msg

\* All is injected; the message without destination is in B's sink and the
\* message from A waits, after one hop, in B's queue.
C17_Witness ==
  /\ injected = Len(msg)
  /\ \E m \in DOMAIN msg : Places(m) = {<< "delivered", "B", 1 >>}
  /\ \E m \in DOMAIN msg :
       /\ msg[m].hops = 1
       /\ Places(m) = {<< "in_queue", "B", 1 >>}

\* C18: for every node, at every tick boundary and after every processed
\* message, outbound + failed <= attempted <= inbound, none of them
\* negative; the truncating decay at the end of a tick keeps it so.
C18_CounterOrdering ==
  \A n \in Nodes :
    /\ out_stats[n].out_count >= 0
    /\ out_stats[n].fail_count >= 0
    /\ out_stats[n].out_count + out_stats[n].fail_count <= out_stats[n].attempts
    /\ out_stats[n].attempts <= out_stats[n].in_count

\* B's tick has ended: of 5 inbound and attempted, 3 outbound and 2 failed
\* the decay has left 4, 4, 2 and 1.
C18_Witness ==
  /\ turn = None
  /\ popped = BATCH_LIMIT
  /\ out_stats[Relay].in_count = 4
  /\ out_stats[Relay].attempts = 4
  /\ out_stats[Relay].out_count = 2
  /\ out_stats[Relay].fail_count = 1

\* Nodes x and y are joined by a link.
Linked(x, y) == y \in Keys(links[x]) /\ x \in Keys(links[y])

Last(s) == s[Len(s)]

\* C19: the path of a message in a sink starts at the node where the
\* message was injected, ends at the node that holds it, and every two
\* consecutive entries are linked nodes; the path of a message that waits in
\* a queue after at least one hop ends at a neighbour of the node that
\* holds it.
C19_PathWellFormed ==
  \A n \in Nodes :
    /\ \A i \in 1..Len(delivered[n]) :
         LET p == Path(delivered[n][i])
         IN  /\ p # << >>
             /\ p[1] = msg[delivered[n][i]].src
             /\ Last(p) = n
             /\ \A j \in 1..(Len(p) - 1) : Linked(p[j], p[j + 1])
    /\ \A i \in 1..Len(in_queue[n]) :
         LET p == Path(in_queue[n][i])
         IN  msg[in_queue[n][i]].hops >= 1 =>
               /\ p # << >>
               /\ p[1] = msg[in_queue[n][i]].src
               /\ Linked(Last(p), n)
               /\ \A j \in 1..(Len(p) - 1) : Linked(p[j], p[j + 1])

\* The message from A is in C's sink with the path A, B, C while the
\* message without destination is in B's sink with the path B.
C19_Witness ==
  /\ \E i \in 1..Len(delivered["C"]) :
       /\ msg[delivered["C"][i]].src = "A"
       /\ Path(delivered["C"][i]) = << "A", "B", "C" >>
  /\ \E i \in 1..Len(delivered["B"]) :
       /\ msg[delivered["B"][i]].src = "B"
       /\ Path(delivered["B"][i]) = << "B" >>

\* The hop count of every message in a queue is the length of its path, and
\* of every message in a sink one less.
HopsMatchPath ==
  \A n \in Nodes :
    /\ \A i \in 1..Len(in_queue[n]) :
         msg[in_queue[n][i]].hops = Len(Path(in_queue[n][i]))
    /\ \A i \in 1..Len(delivered[n]) :
         msg[delivered[n][i]].hops = Len(Path(delivered[n][i])) - 1

\* C20: hops = length(path) while a message waits in a queue, hops =
\* length(path) - 1 once it is in a sink, and also when the node that has
\* put itself in the path drops the message, by loss or for want of a route.
C20_HopsTrackPath ==
  [][ /\ HopsMatchPath
      /\ HopsMatchPath'
      /\ \A n \in Nodes, m \in DOMAIN msg :
           (Processing(n, m) /\ Nowhere(m)' /\ Path(m)' # Path(m)) =>
             msg'[m].hops = Len(Path(m)') - 1 ]_vars

\* The message from A has made two hops and is in C's sink, three nodes
\* in its path, while the message from D, dropped there for want of a route,
\* has made none and has D in its path.
C20_Witness ==
  /\ \E i \in 1..Len(delivered["C"]) :
       /\ msg[delivered["C"][i]].hops = 2
       /\ Len(Path(delivered["C"][i])) = 3
  /\ \E m \in DOMAIN msg :
       /\ Nowhere(m)
       /\ Path(m) = << "D" >>
       /\ msg[m].hops = 0

====
